---------------------------- MODULE Spec2Model ----------------------------
(***************************************************************************)
(* Voice-command interpretation pipeline of the Novaa voice browser:       *)
(*   - services/voiceService.ts   (inference mode router, remote client)   *)
(*   - services/llamaEngine.ts    (FunctionGemmaEngine, parseResponse)     *)
(*   - hooks/useVoiceRecognition.ts and the browser screens                *)
(*                                                                         *)
(* JavaScript values are modelled as tagged records, so that an            *)
(* unvalidated value (axios' response.data) and a validated FunctionCall   *)
(* live in the same domain and can be told apart.                          *)
(***************************************************************************)
EXTENDS Integers, Sequences, FiniteSets, TLC

(***************************************************************************)
(* JavaScript values.                                                      *)
(***************************************************************************)
JUndef == [t |-> "undefined"]

JNull == [t |-> "null"]

JStr(s) == [t |-> "str", s |-> s]

JNum(n) == [t |-> "num", n |-> n]

JObj(m) == [t |-> "obj", m |-> m]

JFun(f) == [t |-> "function", f |-> f]

EmptyMap == [k \in {} |-> JUndef]

\* obj.key : a missing property reads as undefined
Prop(v, key) ==
    IF v.t = "obj" /\ key \in DOMAIN v.m THEN v.m[key] ELSE JUndef

\* JavaScript truthiness of a value
Truthy(v) ==
    CASE v.t = "undefined" -> FALSE
      [] v.t = "null" -> FALSE
      [] v.t = "str" -> Len(v.s) # 0
      [] v.t = "num" -> v.n # 0
      [] OTHER -> TRUE

\* typeof v
TypeOf(v) ==
    CASE v.t = "undefined" -> "undefined"
      [] v.t = "str" -> "string"
      [] v.t = "num" -> "number"
      [] v.t = "function" -> "function"
      [] OTHER -> "object"

Digit(d) ==
    CASE d = 0 -> "0" [] d = 1 -> "1" [] d = 2 -> "2" [] d = 3 -> "3"
      [] d = 4 -> "4" [] d = 5 -> "5" [] d = 6 -> "6" [] d = 7 -> "7"
      [] d = 8 -> "8" [] OTHER -> "9"

\* String(value): a string is kept, a number is printed in decimal, null and
\* objects print as JavaScript prints them
RECURSIVE Digits(_)
Digits(n) == IF n < 10 THEN Digit(n) ELSE Digits(n \div 10) \o Digit(n % 10)

StringOf(v) ==
    CASE v.t = "str" -> JStr(v.s)
      [] v.t = "num" -> JStr(Digits(v.n))
      [] v.t = "null" -> JStr("null")
      [] v.t = "undefined" -> JStr("undefined")
      [] OTHER -> JStr("[object Object]")

\* new Error(message)
Err(message) == [message |-> message]

NoError == Err("")

(***************************************************************************)
(* Generated text: a sequence of tokens.  "word" is prose, "eot" the       *)
(* literal <end_of_turn>, "ws" white space.                                *)
(***************************************************************************)
LB == [k |-> "{"]

RB == [k |-> "}"]

COLON == [k |-> ":"]

COMMA == [k |-> ","]

WS == [k |-> "ws"]

EOT == [k |-> "eot"]

WORD == [k |-> "word"]

TStr(s) == [k |-> "str", v |-> JStr(s)]

TNum(n) == [k |-> "num", v |-> JNum(n)]

TNull == [k |-> "null", v |-> JNull]

\* String.prototype.replace(/<end_of_turn>/g, '')
RemoveEndOfTurn(text) == SelectSeq(text, LAMBDA tok : tok # EOT)

RECURSIVE TrimStart(_)
TrimStart(text) ==
    IF text # <<>> /\ Head(text) = WS THEN TrimStart(Tail(text)) ELSE text

RECURSIVE TrimEnd(_)
TrimEnd(text) ==
    IF text # <<>> /\ text[Len(text)] = WS
    THEN TrimEnd(SubSeq(text, 1, Len(text) - 1))
    ELSE text

\* String.prototype.trim
Trim(text) == TrimEnd(TrimStart(text))

\* indexOf / lastIndexOf, 1-based, 0 for JavaScript's -1
IndexOf(text, tok) ==
    IF \E i \in 1..Len(text) : text[i] = tok
    THEN CHOOSE i \in 1..Len(text) :
            text[i] = tok /\ \A j \in 1..(i - 1) : text[j] # tok
    ELSE 0

LastIndexOf(text, tok) ==
    IF \E i \in 1..Len(text) : text[i] = tok
    THEN CHOOSE i \in 1..Len(text) :
            text[i] = tok /\ \A j \in (i + 1)..Len(text) : text[j] # tok
    ELSE 0

(***************************************************************************)
(* JSON.parse on a token sequence: objects, strings, numbers, null.        *)
(***************************************************************************)
ParseFail == [ok |-> FALSE, val |-> JUndef, next |-> 0]

ParseOk(v, n) == [ok |-> TRUE, val |-> v, next |-> n]

PutKey(m, key, v) == [k \in DOMAIN m \cup {key} |-> IF k = key THEN v ELSE m[k]]

RECURSIVE ParseValue(_, _)
RECURSIVE ParseMembers(_, _, _)
ParseValue(toks, i) ==
    IF i > Len(toks) THEN ParseFail
    ELSE IF toks[i].k \in {"str", "num", "null"} THEN ParseOk(toks[i].v, i + 1)
    ELSE IF toks[i] = LB
         THEN IF i + 1 <= Len(toks) /\ toks[i + 1] = RB
              THEN ParseOk(JObj(EmptyMap), i + 2)
              ELSE ParseMembers(toks, i + 1, EmptyMap)
    ELSE ParseFail

ParseMembers(toks, i, acc) ==
    IF i + 1 > Len(toks) \/ toks[i].k # "str" \/ toks[i + 1] # COLON
    THEN ParseFail
    ELSE LET r == ParseValue(toks, i + 2) IN
         IF ~r.ok \/ r.next > Len(toks) THEN ParseFail
         ELSE LET m == PutKey(acc, toks[i].v.s, r.val) IN
              IF toks[r.next] = RB THEN ParseOk(JObj(m), r.next + 1)
              ELSE IF toks[r.next] = COMMA THEN ParseMembers(toks, r.next + 1, m)
              ELSE ParseFail

\* JSON.parse(text): ok with the value, or a SyntaxError
JSONParse(text) ==
    LET toks == SelectSeq(text, LAMBDA tok : tok # WS)
        r == ParseValue(toks, 1)
    IN IF r.ok /\ r.next = Len(toks) + 1
       THEN [ok |-> TRUE, val |-> r.val]
       ELSE [ok |-> FALSE, val |-> JUndef]

(***************************************************************************)
(* FunctionGemmaEngine.parseResponse (llamaEngine.ts).                     *)
(***************************************************************************)
\* String.prototype.substring(start, end) on 0-based indices: the arguments
\* are swapped when start > end
Substring(text, start, end) ==
    LET lo == IF start <= end THEN start ELSE end
        hi == IF start <= end THEN end ELSE start
    IN SubSeq(text, lo + 1, hi)

Returned(v) == [ok |-> TRUE, val |-> v, err |-> NoError]

Thrown(e) == [ok |-> FALSE, val |-> JUndef, err |-> e]

\* for (const [key, value] of Object.entries(parsed.parameters))
\*     parameters[key] = String(value)
StringifyParameters(p) ==
    IF Truthy(p) /\ TypeOf(p) = "object"
    THEN JObj([key \in DOMAIN p.m |-> StringOf(p.m[key])])
    ELSE JObj(EmptyMap)

\* the validation inside parseResponse's try block
ValidateStructure(parsed) ==
    IF ~Truthy(Prop(parsed, "name")) \/ TypeOf(Prop(parsed, "name")) # "string"
    THEN Thrown(Err("Invalid function call: missing or invalid \"name\" field"))
    ELSE Returned(JObj([key \in {"name", "parameters"} |->
                          IF key = "name" THEN Prop(parsed, "name")
                          ELSE StringifyParameters(Prop(parsed, "parameters"))]))

parseResponse(response) ==
    LET trimmed == Trim(RemoveEndOfTurn(response))
        startIdx == IndexOf(trimmed, LB)
        endIdx == LastIndexOf(trimmed, RB)
    IN IF startIdx = 0 \/ endIdx = 0
       THEN Thrown(Err("No JSON object found in response"))
       ELSE LET cleaned == Substring(trimmed, startIdx - 1, endIdx)
                parsed == JSONParse(cleaned)
                inner == IF parsed.ok THEN ValidateStructure(parsed.val)
                         ELSE Thrown(Err("Unexpected token in JSON"))
            IN IF inner.ok THEN inner
               ELSE Thrown(Err("JSON parsing failed: " \o inner.err.message))

(***************************************************************************)
(* Inputs of the model: the commands, the texts the model may generate,    *)
(* the outcomes of a completion and of the HTTP request.                   *)
(***************************************************************************)
Commands == {"open google", "cats"}

FunctionCallText(name, key, valueTok) ==
    <<LB, TStr("name"), COLON, TStr(name), COMMA, TStr("parameters"), COLON,
      LB, TStr(key), COLON, valueTok, RB, RB>>

ModelTexts ==
    { FunctionCallText("open_browser", "url", TStr("google.com")) \o <<EOT>>,
      <<WS>> \o FunctionCallText("search_web", "query", TNum(42)) \o <<WS>>,
      <<LB, TStr("name"), COLON, TStr("go_back"), RB>>,
      <<LB, TStr("name"), COLON, TStr("refresh_page"), COMMA,
        TStr("parameters"), COLON, TNull, RB>>,
      <<WORD, WORD>>,
      <<LB, TStr("parameters"), COLON, LB, RB, RB>>,
      <<LB, TStr("name"), COLON, TNum(7), RB>>,
      <<LB, TStr("name"), COLON, TStr(""), RB>>,
      FunctionCallText("go_forward", "x", TStr("y")) \o <<WORD, LB, WORD, RB>> }

\* llamaContext.completion(...) resolves with a text or rejects
CompletionOutcomes ==
    {[kind |-> "error", text |-> <<>>]}
        \cup {[kind |-> "text", text |-> t] : t \in ModelTexts}

FunctionCallValue(name, key, value) ==
    JObj([k \in {"name", "parameters"} |->
            IF k = "name" THEN JStr(name) ELSE JObj([q \in {key} |-> value])])

\* bodies a 2xx response may carry
ResponseBodies ==
    { FunctionCallValue("open_browser", "url", JStr("google.com")),
      FunctionCallValue("search_web", "query", JNum(42)),
      JObj([k \in {"error"} |-> JStr("Invalid command")]),
      JStr("<html>") }

HttpServiceUnavailable == 503

HttpServerError == 500

HttpBadRequest == 400

\* what axios.post can end with: a response with a status, or no response at
\* all (network error, the 10 s timeout)
HttpOutcomes ==
    {[kind |-> "response", status |-> 200, data |-> d] : d \in ResponseBodies}
        \cup {[kind |-> "response", status |-> st,
               data |-> JObj([k \in {"error"} |-> JStr("failed")])] :
                 st \in {HttpServiceUnavailable, HttpServerError, HttpBadRequest}}
        \cup {[kind |-> k, status |-> 0, data |-> JUndef] :
                 k \in {"network", "timeout"}}

NoOutcome == [kind |-> "none", status |-> 0, data |-> JUndef]

(***************************************************************************)
(* State.                                                                  *)
(*                                                                         *)
(* The engine singleton is the only engine object other code can reach.    *)
(* An engine object that releaseFunctionGemmaEngine has dropped is reached *)
(* only by the calls still in flight on it ("orphan" below): its fields    *)
(* are read by nobody else and are not kept.                               *)
(***************************************************************************)
VARIABLES
    platform,           \* Platform.OS
    currentMode,        \* voiceService.ts: let currentMode
    onDeviceAvailable,  \* voiceService.ts: let onDeviceAvailable
    autoInitAttempted,  \* voiceService.ts: let autoInitAttempted
    engineInstance,     \* llamaEngine.ts: the singleton: "null" or "engine"
    engine,             \* the private fields of the singleton
    loads,              \* the loadModel call in flight of each initializer
    unload,             \* the unloadModel call in flight
    call,               \* the parseVoiceCommand call, in flight or settled
    screen,             \* the mounted screen: "hook" (browser.tsx with
                        \* useVoiceRecognition) or "legacy" (the screen that
                        \* drives the Web Speech API itself)
    capable,            \* the platform offers speech recognition
    supportPc,          \* the mount effects: "pending" or "done"
    isSupported,        \* useVoiceRecognition: useState(false)
    isListening,        \* useState(false)
    transcript,         \* useState('')
    voiceError,         \* the hook's error: useState(null)
    recognitionRef,     \* webRecognitionRef / recognitionRef: "null", "object"
                        \* (the object of the recognizer's session) or "fresh"
                        \* (an object created since, never started)
    effectDue,          \* the Web Speech effect has to run again
    startPc,            \* the native startListening: "idle", "permission",
                        \* "starting"
    recognizer,         \* the platform's recognition engine
    session,            \* what the current listening session delivered
    lastOp,             \* the handler or event that acted last on the hook
    url,                \* browser.tsx: useState('https://www.google.com')
    currentUrl,         \* useState('https://www.google.com')
    status,             \* useState('')
    isProcessing,       \* useState(false)
    showFeedback,       \* useState(false)
    hideTimer,          \* hideTimer.current, the timers not referenced any more, and
                        \* the status the referenced timer was scheduled after
    run,                \* the processVoiceCommand call, in flight or finished
    urlString,          \* normalizeURL: the argument
    normalized,         \* normalizeURL(urlString)
    renormalized,       \* normalizeURL(normalized)
    urlPc,              \* how often normalizeURL has been applied
    route               \* nova-web: the POST /api/parse-command request being served

routerVars ==
    <<platform, currentMode, onDeviceAvailable, autoInitAttempted,
      engineInstance, engine, loads, unload, call>>

voiceVars ==
    <<screen, capable, supportPc, isSupported, isListening, transcript, voiceError,
      recognitionRef, effectDue, startPc, recognizer, session, lastOp>>

execVars == <<url, currentUrl, status, isProcessing, showFeedback, hideTimer, run>>

urlVars == <<urlString, normalized, renormalized, urlPc>>

routeVars == <<route>>

vars == <<routerVars, voiceVars, execVars, urlVars, routeVars>>

Platforms == {"web", "android", "ios"}

Modes == {"on_device", "backend", "auto"}

Loaders == {"auto", "init"}

\* class FunctionGemmaEngine: the private fields after construction
NewEngine == [isLoaded |-> FALSE, llamaContext |-> FALSE, loadError |-> "null"]

IdleLoad == [pc |-> "idle", orphan |-> FALSE]

IdleUnload == [pc |-> "idle", release |-> FALSE]

IdleCall ==
    [pc |-> "idle", command |-> "", mode |-> "auto", ready |-> FALSE,
     localAttempted |-> FALSE, engineInvoked |-> FALSE, localFailed |-> FALSE,
     remoteCalled |-> FALSE, remote |-> NoOutcome, source |-> "none",
     generated |-> <<>>, value |-> JUndef, error |-> NoError]

RouterState(os) ==
    /\ platform = os
    /\ currentMode = "auto"
    /\ onDeviceAvailable = FALSE
    /\ autoInitAttempted = FALSE
    /\ engineInstance = "null"
    /\ engine = NewEngine
    /\ loads = [l \in Loaders |-> IdleLoad]
    /\ unload = IdleUnload
    /\ call = IdleCall

RouterInit == \E os \in Platforms : RouterState(os)

(***************************************************************************)
(* llamaEngine.ts: the engine singleton and the model's life cycle.        *)
(***************************************************************************)
\* getFunctionGemmaEngine(): the singleton, constructed on first use (engine
\* holds the fields of a new object whenever engineInstance is null)
getFunctionGemmaEngine == engineInstance' = "engine"

\* FunctionGemmaEngine.getBundledModelPath
getBundledModelPath(os) ==
    CASE os = "web" -> "null"
      [] os = "android" ->
            "file:///android_asset/models/functiongemma-270m-it-Q4_K_M.gguf"
      [] os = "ios" -> "functiongemma-270m-it-Q4_K_M.gguf"
      [] OTHER -> "null"

\* FunctionGemmaEngine.loadModel up to its first await: on the web it fails at
\* once, elsewhere it waits for import('llama.rn') and initLlama
loadModel(l) ==
    IF platform = "web"
    THEN /\ engine' = [engine EXCEPT !.loadError =
                "Web platform not yet supported for on-device inference"]
         /\ UNCHANGED loads
    ELSE /\ loads' = [loads EXCEPT ![l] = [pc |-> "loading", orphan |-> FALSE]]
         /\ UNCHANGED engine

\* FunctionGemmaEngine.tryLoadBundledModel
tryLoadBundledModel(l) ==
    IF getBundledModelPath(platform) = "null"
    THEN UNCHANGED <<engine, loads>>
    ELSE loadModel(l)

\* the engine's fields when loadModel's awaits are over: import('llama.rn') or
\* initLlama failed (the inner catch), or the context was created
EngineAfterLoad(fields, success) ==
    IF success
    THEN [isLoaded |-> TRUE, llamaContext |-> TRUE, loadError |-> "null"]
    ELSE [fields EXCEPT !.loadError =
            "llama.rn not installed. Install with: npm install llama.rn"]

(***************************************************************************)
(* voiceService.ts: initialisation and the inference mode.                 *)
(***************************************************************************)
\* mutant: the flag follows the last load, so a failed load clears it
ReadinessTracksLastLoad(ready, success) == success

\* if (success) { onDeviceAvailable = true; ... } else { return false; }
ReadinessAfterLoad(ready, success) == IF success THEN TRUE ELSE ready

\* a variant without the autoInitAttempted guard
autoInitializeEveryTime ==
    /\ loads["auto"].pc = "idle"
    /\ autoInitAttempted' = TRUE
    /\ getFunctionGemmaEngine
    /\ tryLoadBundledModel("auto")
    /\ UNCHANGED <<voiceVars, execVars, urlVars, routeVars, platform, currentMode, onDeviceAvailable,
                   unload, call>>

autoInitializeOnDevice ==
    IF autoInitAttempted
    THEN UNCHANGED vars
    ELSE /\ autoInitAttempted' = TRUE
         /\ getFunctionGemmaEngine
         /\ tryLoadBundledModel("auto")
         /\ UNCHANGED <<voiceVars, execVars, urlVars, routeVars, platform, currentMode, onDeviceAvailable, unload, call>>

initializeOnDeviceInference ==
    /\ loads["init"].pc = "idle"
    /\ getFunctionGemmaEngine
    /\ loadModel("init")
    /\ UNCHANGED <<voiceVars, execVars, urlVars, routeVars, platform, currentMode, onDeviceAvailable, autoInitAttempted,
                   unload, call>>

\* a variant in which a successful load also switches the mode to on-device
LoadDoneSwitchesMode(l, success) ==
    /\ loads[l].pc = "loading"
    /\ engine' = IF loads[l].orphan THEN engine
                 ELSE EngineAfterLoad(engine, success)
    /\ onDeviceAvailable' = ReadinessAfterLoad(onDeviceAvailable, success)
    /\ currentMode' = IF success THEN "on_device" ELSE currentMode
    /\ loads' = [loads EXCEPT ![l] = IdleLoad]
    /\ UNCHANGED <<voiceVars, execVars, urlVars, routeVars, platform, autoInitAttempted,
                   engineInstance, unload, call>>

\* the continuation of either initializer after "await engine.loadModel(...)"
LoadDone(l, success) ==
    /\ loads[l].pc = "loading"
    /\ engine' = IF loads[l].orphan THEN engine
                 ELSE EngineAfterLoad(engine, success)
    /\ onDeviceAvailable' = ReadinessAfterLoad(onDeviceAvailable, success)
    /\ loads' = [loads EXCEPT ![l] = IdleLoad]
    /\ UNCHANGED <<voiceVars, execVars, urlVars, routeVars, platform, currentMode, autoInitAttempted, engineInstance,
                   unload, call>>

setInferenceMode(mode) ==
    /\ currentMode' = mode
    /\ UNCHANGED <<voiceVars, execVars, urlVars, routeVars, platform, onDeviceAvailable, autoInitAttempted,
                   engineInstance, engine, loads, unload, call>>

\* the end of unloadModel; releaseFunctionGemmaEngine then drops the singleton,
\* and the loads in flight on it go on with an object nobody else can reach
Unloaded(release) ==
    IF release
    THEN /\ engineInstance' = "null"
         /\ engine' = NewEngine
         /\ loads' = [l \in Loaders |->
                        IF loads[l].pc = "loading"
                        THEN [loads[l] EXCEPT !.orphan = TRUE] ELSE loads[l]]
    ELSE /\ engine' = [engine EXCEPT !.llamaContext = FALSE, !.isLoaded = FALSE]
         /\ UNCHANGED <<engineInstance, loads>>

\* FunctionGemmaEngine.unloadModel up to "await this.llamaContext.release()"
unloadModel(release) ==
    IF engine.llamaContext
    THEN /\ unload' = [pc |-> "releasing", release |-> release]
         /\ UNCHANGED <<engine, engineInstance, loads>>
    ELSE /\ Unloaded(release)
         /\ UNCHANGED unload

UnloadModel ==
    /\ unload.pc = "idle"
    /\ engineInstance # "null"
    /\ unloadModel(FALSE)
    /\ UNCHANGED <<voiceVars, execVars, urlVars, routeVars, platform, currentMode, onDeviceAvailable, autoInitAttempted,
                   call>>

releaseFunctionGemmaEngine ==
    /\ unload.pc = "idle"
    /\ engineInstance # "null"
    /\ unloadModel(TRUE)
    /\ UNCHANGED <<voiceVars, execVars, urlVars, routeVars, platform, currentMode, onDeviceAvailable, autoInitAttempted,
                   call>>

UnloadDone ==
    /\ unload.pc = "releasing"
    /\ Unloaded(unload.release)
    /\ unload' = IdleUnload
    /\ UNCHANGED <<voiceVars, execVars, urlVars, routeVars, platform, currentMode, onDeviceAvailable, autoInitAttempted,
                   call>>

(***************************************************************************)
(* voiceService.ts: interpretation.                                        *)
(***************************************************************************)
\* axios.post(...): a 2xx response is returned, anything else is thrown as an
\* error whose "response" is present only when the server answered
AxiosPost(outcome) ==
    IF outcome.kind = "response" /\ outcome.status >= 200 /\ outcome.status < 300
    THEN [ok |-> TRUE, data |-> outcome.data, hasResponse |-> TRUE,
          status |-> outcome.status]
    ELSE [ok |-> FALSE, data |-> JUndef,
          hasResponse |-> (outcome.kind = "response"),
          status |-> outcome.status]

\* the synthesized { name: 'search_web', parameters: { query: command } }
SearchFallback(command) == FunctionCallValue("search_web", "query", JStr(command))

\* mutant: the catch block degrades every failure, a 503 included
BackendCatchDegradesAll(command, error) == Returned(SearchFallback(command))

\* mutant: the catch block degrades only failures without a response
BackendCatchRethrowsHttp(command, error) ==
    IF error.hasResponse
    THEN Thrown(Err("Backend server is not running"))
    ELSE Returned(SearchFallback(command))

\* the catch block of parseCommandViaBackend
BackendCatch(command, error) ==
    IF error.hasResponse /\ error.status = HttpServiceUnavailable
    THEN Thrown(Err("Backend server is not running"))
    ELSE Returned(SearchFallback(command))

\* parseCommandViaBackend, given how the request ended
parseCommandViaBackend(command, outcome) ==
    LET response == AxiosPost(outcome) IN
    IF response.ok THEN Returned(response.data)
    ELSE BackendCatch(command, response)

\* mutant: parseCommand lets the inner error through without wrapping it
parseCommandUnwrapped(outcome) ==
    IF outcome.kind = "error" THEN Thrown(Err("completion failed"))
    ELSE parseResponse(outcome.text)

\* FunctionGemmaEngine.parseCommand after "await this.llamaContext.completion"
parseCommand(outcome) ==
    LET inner == IF outcome.kind = "error" THEN Thrown(Err("completion failed"))
                 ELSE parseResponse(outcome.text)
    IN IF inner.ok THEN inner
       ELSE Thrown(Err("Inference failed: " \o inner.err.message))

\* mutant: the readiness flag is consulted before the mode
UsesOnDeviceWhenReady(mode, ready) == mode = "on_device" \/ ready

\* mutant: AUTO tries the engine whatever the readiness flag says
UsesOnDeviceUnlessBackend(mode, ready) == mode # "backend"

\* the switch of parseVoiceCommand: which cases try the on-device engine first
UsesOnDevice(mode, ready) ==
    CASE mode = "on_device" -> TRUE
      [] mode = "backend" -> FALSE
      [] OTHER -> ready

\* mutant: ON_DEVICE gets the fallback too
FallsBackUnlessBackend(mode) == mode # "backend"

\* mutant: no case has the fallback
FallsBackNever(mode) == FALSE

\* the inner try/catch exists in the AUTO case only
FallsBackToBackend(mode) == mode \notin {"on_device", "backend"}

Resolve(c, v, source) == [c EXCEPT !.pc = "resolved", !.value = v, !.source = source]

Reject(c, e) == [c EXCEPT !.pc = "rejected", !.error = e]

\* const result = await parseCommandViaBackend(command): the request is sent
BackendRequest(c) == [c EXCEPT !.pc = "backend", !.remoteCalled = TRUE]

\* an error thrown by parseCommandOnDevice: swallowed in AUTO, rethrown otherwise
OnDeviceFailed(c, e) ==
    LET failed == [c EXCEPT !.localFailed = TRUE] IN
    IF FallsBackToBackend(c.mode) THEN BackendRequest(failed) ELSE Reject(failed, e)

\* parseCommandOnDevice and the entry of FunctionGemmaEngine.parseCommand, up to
\* the await of the completion
parseCommandOnDevice(c) ==
    LET attempt == [c EXCEPT !.localAttempted = TRUE] IN
    IF ~engine.isLoaded
    THEN OnDeviceFailed(attempt, Err("On-device model not loaded"))
    ELSE IF ~engine.isLoaded \/ ~engine.llamaContext
    THEN OnDeviceFailed(attempt, Err("Model not loaded. Call loadModel() first."))
    ELSE [attempt EXCEPT !.pc = "completion", !.engineInvoked = TRUE]

\* parseVoiceCommand up to its first await
parseVoiceCommand(command) ==
    /\ call.pc \in {"idle", "resolved", "rejected"}
    /\ LET c == [IdleCall EXCEPT !.command = command, !.mode = currentMode,
                                 !.ready = onDeviceAvailable]
       IN IF UsesOnDevice(currentMode, onDeviceAvailable)
          THEN /\ getFunctionGemmaEngine
               /\ call' = parseCommandOnDevice(c)
          ELSE /\ call' = BackendRequest(c)
               /\ UNCHANGED engineInstance
    /\ UNCHANGED <<voiceVars, execVars, urlVars, routeVars, platform, currentMode, onDeviceAvailable, autoInitAttempted,
                   engine, loads, unload>>

\* the completion settles: the local result is returned, or the error handled
CompletionDone(outcome) ==
    /\ call.pc = "completion"
    /\ LET r == parseCommand(outcome)
           c == [call EXCEPT !.generated = outcome.text]
       IN call' = IF r.ok THEN Resolve(c, r.val, "local")
                  ELSE OnDeviceFailed(c, r.err)
    /\ UNCHANGED <<voiceVars, execVars, urlVars, routeVars, platform, currentMode, onDeviceAvailable, autoInitAttempted,
                   engineInstance, engine, loads, unload>>

\* the HTTP request settles
BackendDone(outcome) ==
    /\ call.pc = "backend"
    /\ LET r == parseCommandViaBackend(call.command, outcome)
           c == [call EXCEPT !.remote = outcome]
       IN call' = IF r.ok THEN Resolve(c, r.val, "remote") ELSE Reject(c, r.err)
    /\ UNCHANGED <<voiceVars, execVars, urlVars, routeVars, platform, currentMode, onDeviceAvailable, autoInitAttempted,
                   engineInstance, engine, loads, unload>>

(***************************************************************************)
(* Voice capture: the useVoiceRecognition hook as the browser screen uses  *)
(* it, and the screen that drives the Web Speech API itself.               *)
(***************************************************************************)
MaxInterim == 2

Screens == {"hook", "legacy"}

\* the alternatives a result event carries, best first
ResultLists == {<<>>, <<"open">>, <<"open google">>}

ErrorCodes == {"no-speech", "not-allowed"}

QuietRecognizer == [state |-> "inactive", startPending |-> FALSE, interims |-> 0]

NoSession ==
    [interims |-> 0, finals |-> 0, finalText |-> "", triggers |-> 0,
     interimTriggers |-> 0, typeErrors |-> 0, commands |-> <<>>]

\* the handler or event that acted, its argument, and whether it called the
\* engine's start
Op(op, arg, engineStart) == [op |-> op, arg |-> arg, engineStart |-> engineStart]

VoiceState(s, c) ==
    /\ screen = s
    /\ capable = c
    /\ supportPc = "pending"
    /\ isSupported = FALSE
    /\ isListening = FALSE
    /\ transcript = ""
    /\ voiceError = "null"
    /\ recognitionRef = "null"
    /\ effectDue = FALSE
    /\ startPc = "idle"
    /\ recognizer = QuietRecognizer
    /\ session = NoSession
    /\ lastOp = Op("mount", "", FALSE)

\* a state change of the hook renders the screen again; the screen passes a
\* new argument on every render, so on web the Web Speech effect, which
\* depends on [isSupported, onResult], has to run again
HookRender ==
    effectDue' = (effectDue \/ (/\ screen = "hook"
                                /\ platform = "web"
                                /\ <<isSupported', isListening', transcript', voiceError'>>
                                       # <<isSupported, isListening, transcript, voiceError>>))

\* the engine begins a session; the native module announces it with a
\* 'start' event
RecStart == [state |-> "active", startPending |-> (platform # "web"), interims |-> 0]

\* a variant of stop() that ends the engine's session in every state
RecStopAlways(r) == [r EXCEPT !.state = IF @ = "active" THEN "stopping" ELSE "ending"]

\* stop(): the engine delivers what it has and ends
RecStop(r) == IF r.state = "active" THEN [r EXCEPT !.state = "stopping"] ELSE r

\* the screen's processVoiceCommand, as far as it hands the command to
\* parseVoiceCommand
processVoiceCommand(sess, command, isFinal) ==
    [sess EXCEPT !.triggers = @ + 1,
                 !.interimTriggers = @ + (IF isFinal THEN 0 ELSE 1),
                 !.commands = Append(@, command)]

\* browser.tsx: the callback the screen writes for results
screenOnResult(sess, result) ==
    IF result.isFinal
    THEN processVoiceCommand(sess, result.transcript, result.isFinal)
    ELSE sess

\* browser.tsx: what the screen passes to useVoiceRecognition
HookArgument == JObj([k \in {"onResult"} |-> JFun("screenOnResult")])

\* the hook's `if (onResult) { onResult({...}) }`: calling a value that is not
\* a function throws a TypeError out of the event handler
CallOnResult(onResult, sess, result) ==
    IF ~Truthy(onResult) THEN sess
    ELSE IF TypeOf(onResult) # "function"
         THEN [sess EXCEPT !.typeErrors = @ + 1]
         ELSE screenOnResult(sess, result)

\* the legacy screen's recognition.onresult
legacyOnResult(sess, result) ==
    IF result.isFinal
    THEN processVoiceCommand(sess, result.transcript, result.isFinal)
    ELSE sess

\* the text a result event yields
TranscriptOf(results) ==
    IF Len(results) = 0 THEN "" ELSE results[1]

\* a status line: a fixed text and the value printed into it
Status(text, arg) == [text |-> text, arg |-> arg]

\* showFeedbackPanel: the status line and the panel
Shown(st) == status' = st /\ showFeedback' = TRUE

\* browser.tsx: the effect on [voiceError] shows a new error of the hook
HookFeedback ==
    IF voiceError' # voiceError /\ voiceError' # "null"
    THEN Shown(Status("Voice Error: ", voiceError'))
    ELSE UNCHANGED <<status, showFeedback>>

\* a variant of the error handlers that leaves the listening state alone
onErrorKeepsListening(code, hook) == [hook EXCEPT !.error = code]

\* the hook's error handlers: setError(event.error); setIsListening(false)
onError(code, hook) == [hook EXCEPT !.error = code, !.isListening = FALSE]

\* a variant that takes every answer for a grant
PermissionAlwaysAllows(permission) == TRUE

\* if (status !== 'granted') { setError('Microphone permission denied'); return }
PermissionAllows(permission) == permission = "granted"

\* the hook's mount effect
checkSupport ==
    /\ lastOp' = Op("checkSupport", "", FALSE)
    /\ screen = "hook"
    /\ supportPc = "pending"
    /\ supportPc' = "done"
    /\ isSupported' = capable
    /\ UNCHANGED <<routerVars, execVars, urlVars, routeVars, screen, capable, isListening, transcript, voiceError,
                   recognitionRef, startPc, recognizer, session>>
    /\ HookRender

\* the hook's Web Speech effect: the cleanup of the previous run, then the body
webRecognitionEffect ==
    /\ lastOp' = Op("webRecognitionEffect", "", FALSE)
    /\ screen = "hook"
    /\ effectDue
    /\ effectDue' = FALSE
    /\ recognizer' = IF recognitionRef = "object" THEN RecStop(recognizer) ELSE recognizer
    /\ recognitionRef' = IF platform = "web" /\ isSupported /\ capable
                         THEN "fresh"
                         ELSE recognitionRef
    /\ UNCHANGED <<routerVars, execVars, urlVars, routeVars, screen, capable, supportPc, isSupported, isListening,
                   transcript, voiceError, startPc, session>>

\* start() on a Web Speech object: it throws on the object whose session is
\* still running; on a new object while another object's session is running
\* the browser either refuses or drops the running session
WebStartMay(throws) ==
    CASE recognizer.state = "inactive" -> ~throws
      [] recognitionRef = "object" -> throws
      [] OTHER -> TRUE

startListening(throws) ==
    /\ screen = "hook"
    /\ transcript' = ""
    /\ IF platform = "web"
       THEN /\ IF recognitionRef = "null"
               THEN /\ ~throws
                    /\ voiceError' = "null"
                    /\ lastOp' = Op("startListening", "", FALSE)
                    /\ UNCHANGED <<recognitionRef, recognizer, session, isListening>>
               ELSE /\ WebStartMay(throws)
                    /\ lastOp' = Op("startListening", "", TRUE)
                    /\ IF throws
                       THEN /\ voiceError' = "recognition has already started"
                            /\ UNCHANGED <<recognitionRef, recognizer, session, isListening>>
                       ELSE /\ voiceError' = "null"
                            /\ recognitionRef' = "object"
                            /\ recognizer' = RecStart
                            /\ session' = NoSession
                            /\ isListening' = TRUE
            /\ UNCHANGED startPc
       ELSE /\ ~throws
            /\ startPc = "idle"
            /\ startPc' = "permission"
            /\ voiceError' = "null"
            /\ lastOp' = Op("startListening", "", FALSE)
            /\ UNCHANGED <<recognitionRef, recognizer, session, isListening>>
    /\ HookFeedback
    /\ UNCHANGED <<routerVars, urlVars, routeVars, url, currentUrl, isProcessing, hideTimer, run,
                   screen, capable, supportPc, isSupported>>
    /\ HookRender

\* requestPermissionsAsync() settles, and with the permission the module starts
PermissionDone(permission, throws) ==
    /\ screen = "hook"
    /\ startPc = "permission"
    /\ IF ~PermissionAllows(permission)
       THEN /\ ~throws
            /\ voiceError' = "Microphone permission denied"
            /\ startPc' = "idle"
            /\ lastOp' = Op("PermissionDone", permission, FALSE)
            /\ UNCHANGED <<recognizer, session>>
       ELSE /\ lastOp' = Op("PermissionDone", permission, TRUE)
            /\ IF throws
               THEN /\ voiceError' = "start failed"
                    /\ startPc' = "idle"
                    /\ UNCHANGED <<recognizer, session>>
               ELSE /\ capable
                    /\ recognizer' = RecStart
                    /\ session' = NoSession
                    /\ startPc' = "starting"
                    /\ UNCHANGED voiceError
    /\ HookFeedback
    /\ UNCHANGED <<routerVars, urlVars, routeVars, url, currentUrl, isProcessing, hideTimer, run,
                   screen, capable, supportPc, isSupported, isListening, transcript,
                   recognitionRef>>
    /\ HookRender

\* the continuation after `await ExpoSpeechRecognitionModule.start(...)`
StartResolved ==
    /\ lastOp' = Op("StartResolved", "", FALSE)
    /\ screen = "hook"
    /\ startPc = "starting"
    /\ startPc' = "idle"
    /\ isListening' = TRUE
    /\ UNCHANGED <<routerVars, execVars, urlVars, routeVars, screen, capable, supportPc, isSupported, transcript,
                   voiceError, recognitionRef, recognizer, session>>
    /\ HookRender

stopListening ==
    /\ lastOp' = Op("stopListening", IF isListening THEN "listening" ELSE "idle", FALSE)
    /\ screen = "hook"
    /\ recognizer' = IF platform = "web"
                     THEN IF recognitionRef = "object" THEN RecStop(recognizer) ELSE recognizer
                     ELSE RecStop(recognizer)
    /\ isListening' = FALSE
    /\ UNCHANGED <<routerVars, execVars, urlVars, routeVars, screen, capable, supportPc, isSupported, transcript,
                   voiceError, recognitionRef, startPc, session>>
    /\ HookRender

\* the native module's 'start' event
StartEvent ==
    /\ lastOp' = Op("StartEvent", "", FALSE)
    /\ screen = "hook"
    /\ recognizer.startPending
    /\ recognizer' = [recognizer EXCEPT !.startPending = FALSE]
    /\ isListening' = TRUE
    /\ voiceError' = "null"
    /\ UNCHANGED <<routerVars, execVars, urlVars, routeVars, screen, capable, supportPc, isSupported, transcript,
                   recognitionRef, startPc, session>>
    /\ HookRender

\* the legacy screen's mount effect
legacyMount ==
    /\ lastOp' = Op("legacyMount", "", FALSE)
    /\ screen = "legacy"
    /\ supportPc = "pending"
    /\ supportPc' = "done"
    /\ recognitionRef' = IF platform = "web" /\ capable THEN "object" ELSE "null"
    /\ UNCHANGED <<routerVars, execVars, urlVars, routeVars, screen, capable, isSupported, isListening, transcript,
                   voiceError, effectDue, startPc, recognizer, session>>

legacyStartListening ==
    /\ screen = "legacy"
    /\ supportPc = "done"
    /\ IF platform # "web" \/ recognitionRef = "null"
       THEN /\ lastOp' = Op("legacyStartListening", "", FALSE)
            /\ UNCHANGED <<isListening, transcript, recognizer, session, status, showFeedback>>
       ELSE /\ lastOp' = Op("legacyStartListening", "", TRUE)
            /\ transcript' = ""
            /\ Shown(Status("Listening...", ""))
            /\ IF recognizer.state = "inactive"
               THEN /\ recognizer' = RecStart
                    /\ session' = NoSession
                    /\ isListening' = TRUE
               ELSE /\ isListening' = FALSE
                    /\ UNCHANGED <<recognizer, session>>
    /\ UNCHANGED <<routerVars, urlVars, routeVars, url, currentUrl, isProcessing, hideTimer, run,
                   screen, capable, supportPc, isSupported, voiceError, recognitionRef,
                   effectDue, startPc>>

legacyStopListening ==
    /\ lastOp' = Op("legacyStopListening", IF isListening THEN "listening" ELSE "idle", FALSE)
    /\ screen = "legacy"
    /\ supportPc = "done"
    /\ recognizer' = IF recognitionRef # "null" THEN RecStop(recognizer) ELSE recognizer
    /\ isListening' = FALSE
    /\ UNCHANGED <<routerVars, execVars, urlVars, routeVars, screen, capable, supportPc, isSupported, transcript,
                   voiceError, recognitionRef, effectDue, startPc, session>>

\* a result event: interim results while the engine listens, one final result
\* before the session ends
ResultEvent(results, isFinal) ==
    /\ lastOp' = Op("ResultEvent", TranscriptOf(results), FALSE)
    /\ ~recognizer.startPending
    /\ \/ /\ ~isFinal
          /\ recognizer.state = "active"
          /\ recognizer.interims < MaxInterim
          /\ recognizer' = [recognizer EXCEPT !.interims = @ + 1]
       \/ /\ isFinal
          /\ recognizer.state \in {"active", "stopping"}
          /\ recognizer' = [recognizer EXCEPT !.state = "ending"]
    /\ platform = "web" => Len(results) > 0
    /\ LET result == [transcript |-> TranscriptOf(results), isFinal |-> isFinal]
           seen == [session EXCEPT !.interims = @ + (IF isFinal THEN 0 ELSE 1),
                                   !.finals = @ + (IF isFinal THEN 1 ELSE 0),
                                   !.finalText = IF isFinal THEN result.transcript ELSE @]
       IN /\ transcript' = result.transcript
          /\ session' = IF screen = "hook"
                        THEN CallOnResult(HookArgument, seen, result)
                        ELSE legacyOnResult(seen, result)
    /\ IF screen = "legacy" /\ isFinal
       THEN /\ isProcessing' = TRUE
            /\ Shown(Status("Processing...", ""))
       ELSE UNCHANGED <<isProcessing, status, showFeedback>>
    /\ UNCHANGED <<routerVars, urlVars, routeVars, url, currentUrl, hideTimer, run, screen, capable,
                   supportPc, isSupported, isListening, voiceError, recognitionRef, startPc>>
    /\ HookRender

ErrorEvent(code) ==
    /\ lastOp' = Op("ErrorEvent", code, FALSE)
    /\ ~recognizer.startPending
    /\ recognizer.state \in {"active", "stopping"}
    /\ recognizer' = [recognizer EXCEPT !.state = "ending"]
    /\ IF screen = "hook"
       THEN LET hook == onError(code, [error |-> voiceError, isListening |-> isListening])
            IN /\ voiceError' = hook.error
               /\ isListening' = hook.isListening
               /\ HookFeedback
               /\ UNCHANGED transcript
       ELSE /\ isListening' = FALSE
            /\ transcript' = ""
            /\ Shown(Status("Error: ", code))
            /\ UNCHANGED voiceError
    /\ UNCHANGED <<routerVars, urlVars, routeVars, url, currentUrl, isProcessing, hideTimer, run,
                   screen, capable, supportPc, isSupported, recognitionRef, startPc, session>>
    /\ HookRender

EndEvent ==
    /\ lastOp' = Op("EndEvent", "", FALSE)
    /\ ~recognizer.startPending
    /\ recognizer.state \in {"active", "stopping", "ending"}
    /\ recognizer' = [recognizer EXCEPT !.state = "inactive"]
    /\ isListening' = FALSE
    /\ UNCHANGED <<routerVars, execVars, urlVars, routeVars, screen, capable, supportPc, isSupported, transcript,
                   voiceError, recognitionRef, startPc, session>>
    /\ HookRender

(***************************************************************************)
(* Strings the executor computes with: a sequence of pieces, each a run of *)
(* letters or digits ("https", "localhost", "google") or a piece of        *)
(* punctuation ("://", ".", " ").  No two pieces written side by side      *)
(* spell "://", "." or "localhost" across their border, so String.includes *)
(* and String.replace act on the pieces as they act on the characters.     *)
(***************************************************************************)
MaxUrlLen == 4

UrlPieces == {" ", "https", "http", "://", ".", "localhost", "google", ":3000"}

RECURSIVE TextsOfLen(_, _)
TextsOfLen(pieces, n) ==
    IF n = 0
    THEN {<<>>}
    ELSE {<<p>> \o t : p \in pieces, t \in TextsOfLen(pieces, n - 1)}

TextsUpTo(pieces, n) == UNION {TextsOfLen(pieces, k) : k \in 0..n}

UrlStrings == TextsUpTo(UrlPieces, MaxUrlLen)

HttpsPrefix == <<"https", "://">>

HttpsWwwPrefix == <<"https", "://", "www", ".">>

DotCom == <<".", "com">>

\* String.prototype.trim()
RECURSIVE StrTrimStart(_)
StrTrimStart(str) ==
    IF str # <<>> /\ Head(str) = " " THEN StrTrimStart(Tail(str)) ELSE str

RECURSIVE StrTrimEnd(_)
StrTrimEnd(str) ==
    IF str # <<>> /\ str[Len(str)] = " "
    THEN StrTrimEnd(SubSeq(str, 1, Len(str) - 1))
    ELSE str

StrTrim(str) == StrTrimEnd(StrTrimStart(str))

\* the places where pattern occurs in str
Occurrences(str, pattern) ==
    {i \in 1..(Len(str) - Len(pattern) + 1) :
        SubSeq(str, i, i + Len(pattern) - 1) = pattern}

\* String.prototype.includes(pattern)
Includes(str, pattern) == Occurrences(str, pattern) # {}

\* String.prototype.replace(pattern, replacement) with a string pattern: the
\* first occurrence only, wherever it is
ReplaceFirst(str, pattern, replacement) ==
    IF ~Includes(str, pattern)
    THEN str
    ELSE LET i == CHOOSE k \in Occurrences(str, pattern) :
                      \A j \in Occurrences(str, pattern) : k <= j
         IN SubSeq(str, 1, i - 1) \o replacement
                \o SubSeq(str, i + Len(pattern), Len(str))

StartsWith(str, prefix) ==
    Len(prefix) <= Len(str) /\ SubSeq(str, 1, Len(prefix)) = prefix

EndsWith(str, suffix) ==
    Len(suffix) <= Len(str)
        /\ SubSeq(str, Len(str) - Len(suffix) + 1, Len(str)) = suffix

\* a variant that prepends the scheme to every string
WithSchemeAlways(str) == HttpsPrefix \o str

\* normalizeURL, step 2: a string without "://" gets the https scheme
WithScheme(str) ==
    IF ~Includes(str, <<"://">>) THEN HttpsPrefix \o str ELSE str

\* normalizeURL, step 3: the test for a bare hostname
LooksBare(str) ==
    ~Includes(str, <<".">>) /\ ~Includes(str, <<"localhost">>)

\* a variant that appends ".com" and leaves the scheme as it is
CompletedWithoutWww(str) == str \o DotCom

\* normalizeURL, step 3: what is done to a bare hostname
Completed(str) == ReplaceFirst(str, HttpsPrefix, HttpsWwwPrefix) \o DotCom

normalizeURL(str) ==
    LET trimmed == StrTrim(str)
        schemed == WithScheme(trimmed)
    IN IF LooksBare(schemed) THEN Completed(schemed) ELSE schemed

UrlState(str) ==
    /\ urlString = str
    /\ normalized = <<>>
    /\ renormalized = <<>>
    /\ urlPc = 0

\* const normalized = normalizeURL(...), applied to an input and then to its
\* own result
Normalize ==
    /\ urlPc = 0
    /\ urlPc' = 1
    /\ normalized' = normalizeURL(urlString)
    /\ UNCHANGED <<routerVars, voiceVars, execVars, routeVars, urlString, renormalized>>

NormalizeAgain ==
    /\ urlPc = 1
    /\ urlPc' = 2
    /\ renormalized' = normalizeURL(normalized)
    /\ UNCHANGED <<routerVars, voiceVars, execVars, routeVars, urlString, normalized>>

(***************************************************************************)
(* The command executor of the browser screen.                             *)
(***************************************************************************)
LoneSurrogate == "U+D800"

\* encodeURIComponent leaves letters, digits and - _ . ! ~ * ' ( ) alone and
\* writes every other character as the % escapes of its UTF-8 bytes
Escapes ==
    [c \in {" ", "%", "&", "+", "=", "?", "://"} |->
        CASE c = " " -> <<"%", "20">>
          [] c = "%" -> <<"%", "25">>
          [] c = "&" -> <<"%", "26">>
          [] c = "+" -> <<"%", "2B">>
          [] c = "=" -> <<"%", "3D">>
          [] c = "?" -> <<"%", "3F">>
          [] OTHER -> <<"%", "3A", "%", "2F", "%", "2F">>]

EncodeFail == [ok |-> FALSE, str |-> <<>>]

\* a variant that writes every character as it is
encodeNothing(str) == [ok |-> TRUE, str |-> str]

\* encodeURIComponent(str): a lone surrogate makes it throw URIError
RECURSIVE encodeURIComponent(_)
encodeURIComponent(str) ==
    IF str = <<>>
    THEN [ok |-> TRUE, str |-> <<>>]
    ELSE LET rest == encodeURIComponent(Tail(str))
             c == Head(str)
         IN IF c = LoneSurrogate \/ ~rest.ok
            THEN EncodeFail
            ELSE [ok |-> TRUE,
                  str |-> (IF c \in DOMAIN Escapes THEN Escapes[c] ELSE <<c>>) \o rest.str]

\* the argument of encodeURIComponent is converted with String(value)
StringPieces(v) == IF v.t = "str" THEN v.s ELSE <<StringOf(v).s>>

SearchPrefix ==
    <<"https", "://", "www", ".", "google", ".", "com", "/", "search", "?", "q", "=">>

NoLoad == [go |-> FALSE, to |-> <<>>]

Load(to) == [go |-> TRUE, to |-> to]

ExecThrewReloads(e) ==
    [threw |-> e, status |-> Status("", ""), load |-> [go |-> FALSE, to |-> <<>>],
     action |-> "reload"]

\* what one run of executeFunction did: the error it threw, or the status it
\* showed, the URL it loaded and the call it made on the web view
ExecThrew(e) ==
    [threw |-> e, status |-> Status("", ""), load |-> NoLoad, action |-> "none"]

ExecDid(st, load, action) ==
    [threw |-> "none", status |-> st, load |-> load, action |-> action]

KnownNames == {"open_browser", "search_web", "go_back", "go_forward", "refresh_page"}

\* a variant whose default branch reloads the page
UnknownReloads(name) == ExecDid(Status("Unknown command: ", name), NoLoad, "reload")

\* executeFunction: the default branch
UnknownCommand(name) == ExecDid(Status("Unknown command: ", name), NoLoad, "none")

\* executeFunction: case 'open_browser'
OpenBrowser(parameters) ==
    IF parameters.t \in {"undefined", "null"}
    THEN ExecThrew("Cannot read properties of undefined (reading 'url')")
    ELSE LET u == Prop(parameters, "url") IN
         IF ~Truthy(u)
         THEN ExecDid(Status("No URL provided", ""), NoLoad, "none")
         ELSE IF u.t # "str"
              THEN ExecThrew("urlString.trim is not a function")
              ELSE ExecDid(Status("Opening ", normalizeURL(u.s)),
                           Load(normalizeURL(u.s)), "none")

\* executeFunction: case 'search_web'
SearchWeb(parameters) ==
    IF parameters.t \in {"undefined", "null"}
    THEN ExecThrew("Cannot read properties of undefined (reading 'query')")
    ELSE LET q == Prop(parameters, "query") IN
         IF ~Truthy(q)
         THEN ExecDid(Status("No search query provided", ""), NoLoad, "none")
         ELSE LET query == encodeURIComponent(StringPieces(q)) IN
              IF ~query.ok
              THEN ExecThrew("URI malformed")
              ELSE ExecDid(Status("Searching for ", q),
                           Load(SearchPrefix \o query.str), "none")

executeFunction(functionCall) ==
    IF functionCall.t \in {"undefined", "null"}
    THEN ExecThrew("Cannot read properties of undefined (reading 'name')")
    ELSE LET name == Prop(functionCall, "name")
             parameters == Prop(functionCall, "parameters")
         IN CASE name = JStr("open_browser") -> OpenBrowser(parameters)
              [] name = JStr("search_web") -> SearchWeb(parameters)
              [] name = JStr("go_back") ->
                     ExecDid(Status("Going back...", ""), NoLoad, "goBack")
              [] name = JStr("go_forward") ->
                     ExecDid(Status("Going forward...", ""), NoLoad, "goForward")
              [] name = JStr("refresh_page") ->
                     ExecDid(Status("Refreshing page...", ""), NoLoad, "reload")
              [] OTHER -> UnknownCommand(name)

\* the values parseVoiceCommand can resolve to: Function Calls as the engine
\* validates them, and whatever the endpoint answered
UrlParameters == {<<>>, <<"google">>, <<"github", ".", "com">>, <<" ", "localhost", ":3000">>}

QueryParameters ==
    {<<>>, <<"cats">>, <<"cats", " ", "&", "dogs">>, <<"q", "=", "50", "%">>,
     <<"cats", LoneSurrogate>>}

ParameterShapes ==
    {JUndef, JNull, JObj(EmptyMap)}
        \cup {JObj([k \in {"url"} |-> JStr(u)]) : u \in UrlParameters}
        \cup {JObj([k \in {"url"} |-> JNum(42)])}
        \cup {JObj([k \in {"query"} |-> JStr(q)]) : q \in QueryParameters}

NamedCall(name, parameters) ==
    IF parameters = JUndef
    THEN JObj([k \in {"name"} |-> JStr(name)])
    ELSE JObj([k \in {"name", "parameters"} |->
                 IF k = "name" THEN JStr(name) ELSE parameters])

DeliveredValues ==
    {NamedCall(name, parameters) :
        name \in KnownNames \cup {"frobnicate"}, parameters \in ParameterShapes}
        \cup {JNull,
              JStr(<<"<html>">>),
              JObj([k \in {"error"} |-> JStr("Invalid command")])}

InterpretationOutcomes ==
    {[kind |-> "resolved", value |-> v, error |-> ""] : v \in DeliveredValues}
        \cup {[kind |-> "rejected", value |-> JUndef, error |-> e] :
                 e \in {"Backend server is not running", "On-device model not loaded"}}

IdleRun ==
    [pc |-> "idle", command |-> "", kind |-> "none", value |-> JUndef,
     threw |-> "none", action |-> "none"]

\* hideTimer.current is "null" before the first setTimeout, then "pending" until
\* the timer it names fires or is cleared; `others` counts pending timers that
\* the ref does not name; `cleared` records whether the last clearTimeout found
\* its timer still pending
NoTimer == [current |-> "null", others |-> 0, shown |-> Status("", ""), cleared |-> FALSE]

PendingTimers(h) == h.others + (IF h.current = "pending" THEN 1 ELSE 0)

scheduleWithoutClear(h, st) ==
    [current |-> "pending", others |-> PendingTimers(h), shown |-> st, cleared |-> FALSE]

\* clearTimeout(hideTimer.current), then hideTimer.current = setTimeout(...)
scheduleFeedbackHide(h, st) ==
    [current |-> "pending", others |-> h.others, shown |-> st,
     cleared |-> (h.current = "pending")]

\* processVoiceCommand up to `await parseVoiceCommand(command)`
processVoiceCommandStart(command) ==
    /\ run.pc # "awaiting"
    /\ run' = [IdleRun EXCEPT !.pc = "awaiting", !.command = command]
    /\ isProcessing' = TRUE
    /\ status' = Status("Processing...", "")
    /\ showFeedback' = TRUE
    /\ UNCHANGED <<routerVars, voiceVars, urlVars, routeVars, url, currentUrl, hideTimer>>

\* processVoiceCommand after the await: executeFunction with its trailing
\* scheduleFeedbackHide, or the catch block; then the finally block
processVoiceCommandDone(outcome) ==
    /\ run.pc = "awaiting"
    /\ LET did == IF outcome.kind = "resolved"
                  THEN executeFunction(outcome.value)
                  ELSE ExecThrew(outcome.error)
       IN /\ run' = [run EXCEPT !.pc = "done", !.kind = outcome.kind,
                                !.value = outcome.value, !.threw = did.threw,
                                !.action = did.action]
          /\ status' = IF did.threw # "none" THEN Status("Error: ", did.threw) ELSE did.status
          /\ url' = IF did.load.go THEN did.load.to ELSE url
          /\ currentUrl' = IF did.load.go THEN did.load.to ELSE currentUrl
          /\ hideTimer' = IF did.threw # "none"
                          THEN hideTimer
                          ELSE scheduleFeedbackHide(hideTimer, did.status)
    /\ showFeedback' = TRUE
    /\ isProcessing' = FALSE
    /\ UNCHANGED <<routerVars, voiceVars, urlVars, routeVars>>

\* the hide timer fires and the panel fades out
HideTimerFired ==
    /\ \/ /\ hideTimer.current = "pending"
          /\ hideTimer' = [hideTimer EXCEPT !.current = "fired"]
       \/ /\ hideTimer.others > 0
          /\ hideTimer' = [hideTimer EXCEPT !.others = @ - 1]
    /\ showFeedback' = FALSE
    /\ UNCHANGED <<routerVars, voiceVars, urlVars, routeVars, url, currentUrl, status, isProcessing, run>>

\* the URL bar: onChangeText={setCurrentUrl}
TypedUrls == {<<"google">>, <<"http", "://", "google">>, <<" ", "github", ".", "com">>}

setCurrentUrl(text) ==
    /\ currentUrl' = text
    /\ UNCHANGED <<routerVars, voiceVars, urlVars, routeVars, url, status, isProcessing, showFeedback,
                   hideTimer, run>>

handleUrlSubmit ==
    /\ url' = normalizeURL(currentUrl)
    /\ currentUrl' = normalizeURL(currentUrl)
    /\ UNCHANGED <<routerVars, voiceVars, urlVars, routeVars, status, isProcessing, showFeedback,
                   hideTimer, run>>

(***************************************************************************)
(* nova-web: the POST handler of /api/parse-command.                       *)
(***************************************************************************)
\* the commands of the README's table
RouteCommands == {"open google", "search for cats", "go back", "go forward", "refresh page"}

\* what request.json() may deliver
RequestBodies ==
    {JObj([k \in {"command"} |-> JStr(c)]) : c \in RouteCommands}
        \cup {JObj(EmptyMap),
              JObj([k \in {"command"} |-> JStr("")]),
              JObj([k \in {"command"} |-> JNum(7)])}

\* {"name": "go_back", "parameters": {}}
NoParameterText(name) ==
    <<LB, TStr("name"), COLON, TStr(name), COMMA, TStr("parameters"), COLON, LB, RB, RB>>

\* the format SYSTEM_PROMPT asks the model for
DocumentedTexts ==
    {FunctionCallText("open_browser", "url", TStr("google.com")),
     FunctionCallText("search_web", "query", TStr("cats"))}
        \cup {NoParameterText(name) : name \in {"go_back", "go_forward", "refresh_page"}}

NameOnlyTexts == {<<LB, TStr("name"), COLON, TStr(name), RB>> : name \in KnownNames}

RouteTexts ==
    DocumentedTexts \cup NameOnlyTexts
        \cup {<<WORD, WS>> \o t : t \in DocumentedTexts \cup NameOnlyTexts}
        \cup {<<>>, <<WORD, WORD>>, <<LB, RB>>, <<LB, WORD, RB>>}

\* ollama.generate resolves with a text, or rejects: connection refused, or
\* another error
GenerateOutcomes ==
    {[kind |-> "text", text |-> t] : t \in RouteTexts}
        \cup {[kind |-> k, text |-> <<>>] : k \in {"ECONNREFUSED", "error"}}

\* String.prototype.match(/\{[^}]+\}/): from the leftmost `{` that is not
\* directly followed by `}`, up to the first `}` after it
RegexMatch(generated) ==
    LET closes(i) == {j \in (i + 1)..Len(generated) : generated[j] = RB}
        first(i) == CHOOSE j \in closes(i) : \A k \in closes(i) : j <= k
        starts == {i \in 1..Len(generated) :
                     /\ generated[i] = LB
                     /\ closes(i) # {}
                     /\ first(i) > i + 1}
    IN IF starts = {}
       THEN [found |-> FALSE, match |-> <<>>]
       ELSE LET i == CHOOSE a \in starts : \A b \in starts : a <= b
            IN [found |-> TRUE, match |-> SubSeq(generated, i, first(i))]

NextResponse(code, json) == [status |-> code, body |-> json]

RouteFallback(command) ==
    JObj([k \in {"name", "parameters"} |->
            IF k = "name" THEN JStr("search_web")
            ELSE JObj([q \in {"query"} |-> command])])

\* the inner try block: the matched text parsed, or the fallback to search
FunctionCallOf(generated, command) ==
    LET jsonMatch == RegexMatch(generated)
        parsed == JSONParse(jsonMatch.match)
    IN IF jsonMatch.found /\ parsed.ok THEN parsed.val ELSE RouteFallback(command)

IdleRoute ==
    [pc |-> "idle", command |-> JUndef, generated |-> [kind |-> "none", text |-> <<>>],
     response |-> NextResponse(0, JUndef)]

RouteState == route = IdleRoute

\* POST up to `await ollama.generate(...)`
RoutePost(json) ==
    /\ route.pc # "generating"
    /\ LET command == Prop(json, "command")
       IN IF ~Truthy(command) \/ TypeOf(command) # "string"
          THEN route' = [IdleRoute EXCEPT
                           !.pc = "responded", !.command = command,
                           !.response = NextResponse(HttpBadRequest,
                               JObj([k \in {"error"} |-> JStr("Invalid command")]))]
          ELSE route' = [IdleRoute EXCEPT !.pc = "generating", !.command = command]
    /\ UNCHANGED <<routerVars, voiceVars, execVars, urlVars>>

\* POST after the await
RouteGenerated(outcome) ==
    /\ route.pc = "generating"
    /\ route' = [route EXCEPT
         !.pc = "responded",
         !.generated = outcome,
         !.response =
            CASE outcome.kind = "text" ->
                   NextResponse(200, FunctionCallOf(outcome.text, route.command))
              [] outcome.kind = "ECONNREFUSED" ->
                   NextResponse(HttpServiceUnavailable, JObj([k \in {"error"} |->
                       JStr("Ollama is not running. Please start Ollama and pull functiongemma model.")]))
              [] OTHER ->
                   NextResponse(HttpServerError, JObj([k \in {"error"} |->
                       JStr("Failed to process command")]))]
    /\ UNCHANGED <<routerVars, voiceVars, execVars, urlVars>>

GoogleHome == <<"https", "://", "www", ".", "google", ".", "com">>

ExecState ==
    /\ url = GoogleHome
    /\ currentUrl = GoogleHome
    /\ status = Status("", "")
    /\ isProcessing = FALSE
    /\ showFeedback = FALSE
    /\ hideTimer = NoTimer
    /\ run = IdleRun

Init == RouterInit /\ VoiceState("hook", TRUE) /\ ExecState /\ UrlState(<<>>) /\ RouteState

Next ==
    \/ autoInitializeOnDevice
    \/ initializeOnDeviceInference
    \/ \E l \in Loaders, success \in BOOLEAN : LoadDone(l, success)
    \/ \E mode \in Modes : setInferenceMode(mode)
    \/ UnloadModel
    \/ releaseFunctionGemmaEngine
    \/ UnloadDone
    \/ \E command \in Commands : parseVoiceCommand(command)
    \/ \E outcome \in CompletionOutcomes : CompletionDone(outcome)
    \/ \E outcome \in HttpOutcomes : BackendDone(outcome)

Spec == Init /\ [][Next]_vars

InitVoice ==
    /\ RouterInit
    /\ \E s \in Screens, c \in BOOLEAN : VoiceState(s, c)
    /\ ExecState
    /\ UrlState(<<>>)
    /\ RouteState

NextVoice ==
    \/ checkSupport
    \/ webRecognitionEffect
    \/ \E throws \in BOOLEAN : startListening(throws)
    \/ \E permission \in {"granted", "denied"}, throws \in BOOLEAN : PermissionDone(permission, throws)
    \/ StartResolved
    \/ stopListening
    \/ StartEvent
    \/ legacyMount
    \/ legacyStartListening
    \/ legacyStopListening
    \/ \E results \in ResultLists, isFinal \in BOOLEAN : ResultEvent(results, isFinal)
    \/ \E code \in ErrorCodes : ErrorEvent(code)
    \/ EndEvent

SpecVoice == InitVoice /\ [][NextVoice]_vars

InitExec ==
    /\ RouterState("android")
    /\ VoiceState("hook", TRUE)
    /\ ExecState
    /\ UrlState(<<>>)
    /\ RouteState

NextExec ==
    \/ \E command \in Commands : processVoiceCommandStart(command)
    \/ \E outcome \in InterpretationOutcomes : processVoiceCommandDone(outcome)
    \/ HideTimerFired
    \/ \E text \in TypedUrls : setCurrentUrl(text)
    \/ handleUrlSubmit

SpecExec == InitExec /\ [][NextExec]_vars

\* a timer that stays pending fires, and an interpretation that is awaited
\* settles
SpecExecFair ==
    /\ SpecExec
    /\ WF_vars(HideTimerFired)
    /\ WF_vars(\E outcome \in InterpretationOutcomes : processVoiceCommandDone(outcome))

InitUrl ==
    /\ RouterState("web")
    /\ VoiceState("hook", TRUE)
    /\ ExecState
    /\ \E str \in UrlStrings : UrlState(str)
    /\ RouteState

NextUrl ==
    \/ Normalize
    \/ NormalizeAgain

SpecUrl == InitUrl /\ [][NextUrl]_vars

InitRoute ==
    /\ RouterState("web")
    /\ VoiceState("hook", TRUE)
    /\ ExecState
    /\ UrlState(<<>>)
    /\ RouteState

NextRoute ==
    \/ \E json \in RequestBodies : RoutePost(json)
    \/ \E outcome \in GenerateOutcomes : RouteGenerated(outcome)

SpecRoute == InitRoute /\ [][NextRoute]_vars

(***************************************************************************)
(* Properties of the router and of the interpretation paths.               *)
(***************************************************************************)
Settled == call.pc \in {"resolved", "rejected"}

\* the request ended with the given HTTP status
AnsweredWith(c, code) == c.remote.kind = "response" /\ c.remote.status = code

\* the request failed: no response at all, or a response outside 2xx
RemoteFailed(c) ==
    \/ c.remote.kind \in {"network", "timeout"}
    \/ c.remote.kind = "response" /\ (c.remote.status < 200 \/ c.remote.status >= 300)

BackendNotRunning == Err("Backend server is not running")

EngineNotLoadedErrors ==
    {Err("On-device model not loaded"),
     Err("Model not loaded. Call loadModel() first.")}

MalformedOutputErrors ==
    {Err("Inference failed: No JSON object found in response"),
     Err("Inference failed: JSON parsing failed: Unexpected token in JSON"),
     Err("Inference failed: JSON parsing failed: Invalid function call: missing or invalid \"name\" field")}

CompletionFailedError == Err("Inference failed: completion failed")

\* a value with the shape of the FunctionCall interface: a non-empty string
\* name and a parameters object whose values are all strings
IsFunctionCall(v) ==
    /\ v.t = "obj"
    /\ Prop(v, "name").t = "str"
    /\ Prop(v, "name").s # ""
    /\ Prop(v, "parameters").t = "obj"
    /\ \A key \in DOMAIN Prop(v, "parameters").m :
            Prop(v, "parameters").m[key].t = "str"

C3_OnDeviceNeverRemote ==
    [][/\ call'.mode = "on_device"
            => (~call'.remoteCalled /\ call'.pc # "backend"
                /\ call'.source # "remote" /\ call'.remote = NoOutcome)
       /\ (call.pc \in {"idle", "resolved", "rejected"} /\ call' # call
           /\ currentMode = "on_device" /\ ~engine.isLoaded)
            => (call'.pc = "rejected"
                /\ call'.error = Err("On-device model not loaded")
                /\ ~call'.engineInvoked)]_vars

C3_Witness ==
    /\ call.mode = "on_device"
    /\ call.pc = "rejected"
    /\ call.error = Err("On-device model not loaded")
    /\ onDeviceAvailable

\* C4: a remote failure other than a 503 (network error, timeout, another HTTP
\* error status) never rejects: the call resolves to the search_web Function
\* Call whose query is exactly the command.
C4_OtherFailuresDegrade ==
    (Settled /\ RemoteFailed(call) /\ ~AnsweredWith(call, HttpServiceUnavailable))
        => /\ call.pc = "resolved"
           /\ call.source = "remote"
           /\ Prop(call.value, "name") = JStr("search_web")
           /\ Prop(Prop(call.value, "parameters"), "query") = JStr(call.command)

C4_Witness ==
    /\ call.pc = "resolved"
    /\ AnsweredWith(call, HttpServerError)
    /\ call.command = "cats"

\* C5: in BACKEND mode every call goes to the remote endpoint and the on-device
\* engine is never tried, also when a model is loaded and the flag is true.
C5_BackendNeverLocal ==
    (call.mode = "backend" /\ call.pc # "idle")
        => /\ call.remoteCalled
           /\ ~call.localAttempted
           /\ ~call.engineInvoked
           /\ call.pc # "completion"
           /\ call.pc = "resolved" => call.source = "remote"

C5_Witness ==
    /\ call.mode = "backend"
    /\ call.ready
    /\ call.pc = "resolved"
    /\ onDeviceAvailable
    /\ engine.isLoaded

\* C6: in AUTO mode local interpretation is attempted exactly when the
\* readiness flag was true at the call, and the remote endpoint is called
\* exactly when local interpretation was not attempted or failed.
C6_AutoRouting ==
    (call.mode = "auto" /\ call.pc # "idle")
        => /\ call.localAttempted <=> call.ready
           /\ call.remoteCalled <=> (~call.localAttempted \/ call.localFailed)
           /\ (call.pc = "resolved" /\ call.source = "local") => ~call.remoteCalled

C6_Witness ==
    /\ call.mode = "auto"
    /\ call.pc = "resolved"
    /\ call.source = "local"
    /\ call.ready

\* C7: once the readiness flag is true it is true in every later state.
C7_ReadinessSticky == [][onDeviceAvailable => onDeviceAvailable']_vars

C7_Witness ==
    /\ onDeviceAvailable
    /\ ~engine.isLoaded
    /\ engine.loadError = "llama.rn not installed. Install with: npm install llama.rn"
    /\ currentMode = "on_device"
    /\ call.pc = "rejected"

C9_ResolvedIsFunctionCall == call.pc = "resolved" => IsFunctionCall(call.value)

\* C22: the bundled-model load is attempted at most once: a load on behalf
\* of autoInitializeOnDevice begins only in the call that sets
\* autoInitAttempted, the flag is never cleared, and every later call, also
\* one that overlaps the load in flight, changes nothing.
C22_AutoInitOnce ==
    [][/\ autoInitAttempted => autoInitAttempted'
       /\ (loads'["auto"].pc = "loading" /\ loads["auto"].pc # "loading")
              => (~autoInitAttempted /\ autoInitAttempted')
       /\ (autoInitAttempted /\ loads["auto"].pc = "idle") => loads'["auto"].pc = "idle"]_vars

C22_Witness ==
    /\ autoInitAttempted
    /\ loads["auto"].pc = "idle"
    /\ onDeviceAvailable
    /\ engine.isLoaded
    /\ loads["init"].pc = "idle"

\* the first balanced {...} of a text: from the first "{" to the "}" that
\* closes it
RECURSIVE ClosingIndex(_, _, _)
ClosingIndex(text, i, depth) ==
    IF i > Len(text)
    THEN 0
    ELSE IF text[i] = LB
         THEN ClosingIndex(text, i + 1, depth + 1)
         ELSE IF text[i] = RB
              THEN IF depth = 1 THEN i ELSE ClosingIndex(text, i + 1, depth - 1)
              ELSE ClosingIndex(text, i + 1, depth)

FirstBalanced(text) ==
    LET startIdx == IndexOf(text, LB)
        endIdx == IF startIdx = 0 THEN 0 ELSE ClosingIndex(text, startIdx, 0)
    IN IF endIdx = 0 THEN <<>> ELSE SubSeq(text, startIdx, endIdx)

\* the Function Call written in the first balanced object of a text, if that
\* object is one
FirstFunctionCall(text) ==
    LET object == FirstBalanced(Trim(RemoveEndOfTurn(text)))
        parsed == JSONParse(object)
    IN IF object # <<>> /\ parsed.ok
       THEN ValidateStructure(parsed.val)
       ELSE Thrown(NoError)

LocalDone == call.engineInvoked /\ call.generated # <<>> /\ call.pc # "completion"

\* C23: when the first balanced {...} of the generated text is a well-formed
\* function call, local interpretation returns that function call, whatever
\* follows it in the text.
C23_FirstBalancedObject ==
    (LocalDone /\ FirstFunctionCall(call.generated).ok)
        => /\ ~call.localFailed
           /\ Settled => (/\ call.pc = "resolved"
                          /\ call.source = "local"
                          /\ call.value = FirstFunctionCall(call.generated).val)

\* C24: the mode is AUTO at the start, and a step changes it only if the step
\* is setInferenceMode, which touches nothing else; interpretation and model
\* loads leave it alone.
C24_ModeOnlyBySetter ==
    /\ currentMode = "auto"
    /\ [][currentMode' # currentMode
             => UNCHANGED <<onDeviceAvailable, autoInitAttempted, engineInstance,
                            engine, loads, unload, call>>]_vars

C24_Witness ==
    /\ currentMode = "backend"
    /\ onDeviceAvailable
    /\ call.pc = "rejected"
    /\ call.mode = "auto"
    /\ call.localFailed

\* C29: whenever onDeviceAvailable is true, the engine singleton has a model
\* loaded.
C29_ReadyImpliesLoaded ==
    onDeviceAvailable => (engineInstance # "null" /\ engine.isLoaded)


(***************************************************************************)
(* Properties of voice capture.                                            *)
(***************************************************************************)
\* C10: within a listening session an interim result never hands a command
\* to interpretation, and once the final result has been delivered its
\* transcript has been handed to interpretation exactly once.
C10_FinalTriggersOnce ==
    /\ session.interimTriggers = 0
    /\ session.triggers = session.finals
    /\ session.finals = 1 => session.commands = <<session.finalText>>


(***************************************************************************)
(* Properties of normalizeURL.                                             *)
(***************************************************************************)
\* a hostname is written without white space and without a scheme or port
IsHostname(str) ==
    /\ str # <<>>
    /\ \A i \in 1..Len(str) : str[i] \notin {" ", "://", ":3000"}

\* C14: for every bare hostname h (no dot, not containing localhost),
\* normalizeURL(h) = "https://www." + h + ".com".
C14_BareHostname ==
    (urlPc >= 1 /\ IsHostname(urlString) /\ LooksBare(urlString))
        => normalized = HttpsWwwPrefix \o urlString \o DotCom

C14_Witness ==
    /\ urlPc >= 1
    /\ urlString = <<"google">>
    /\ normalized = <<"https", "://", "www", ".", "google", ".", "com">>

\* C15: normalizeURL is idempotent: applied to its own result it returns that
\* result, so no second scheme, "www." or ".com" is added.
C15_Idempotent == urlPc = 2 => renormalized = normalized

C15_Witness ==
    /\ urlPc = 2
    /\ urlString = <<" ", "google">>
    /\ normalized # urlString
    /\ renormalized = normalized

\* the reference algorithm: trim; prepend "https://" when there is no "://";
\* for a bare hostname replace a leading "https://" by "https://www." and
\* append ".com"
ReferenceURL(str) ==
    LET trimmed == StrTrim(str)
        schemed == IF Includes(trimmed, <<"://">>) THEN trimmed ELSE HttpsPrefix \o trimmed
        leading == IF StartsWith(schemed, HttpsPrefix)
                   THEN HttpsWwwPrefix \o SubSeq(schemed, 3, Len(schemed))
                   ELSE schemed
    IN IF LooksBare(schemed) THEN leading \o DotCom ELSE schemed

\* C16: normalizeURL equals the three-step reference algorithm for every
\* input, and "www." and ".com" are added exactly when the string with its
\* scheme contains neither a dot nor localhost.
C16_ReferenceAlgorithm ==
    urlPc >= 1 =>
        LET schemed == WithScheme(StrTrim(urlString)) IN
        /\ normalized = ReferenceURL(urlString)
        /\ Includes(normalized, <<"www", ".">>) <=> LooksBare(schemed)
        /\ EndsWith(normalized, DotCom) <=> LooksBare(schemed)


(***************************************************************************)
(* Properties of the command executor.                                     *)
(***************************************************************************)
\* the step in which processVoiceCommand hands a resolved value to
\* executeFunction
Executes == run.pc = "awaiting" /\ run'.pc = "done" /\ run'.kind = "resolved"

NameOf(v) == Prop(v, "name")

ParameterOf(v, key) == Prop(Prop(v, "parameters"), key)

NoNavigation == url' = url /\ currentUrl' = currentUrl /\ run'.action = "none"

\* C11: a Function Call whose name is none of the five known names makes the
\* executor show "Unknown command: <name>" and nothing else: url and
\* currentUrl stay as they are and no back, forward or reload is issued.
C11_UnknownCommand ==
    [][(/\ Executes
        /\ run'.value.t \notin {"undefined", "null"}
        /\ NameOf(run'.value) \notin {JStr(n) : n \in KnownNames})
       => /\ status' = Status("Unknown command: ", NameOf(run'.value))
          /\ NoNavigation
          /\ run'.threw = "none"]_vars

C11_Witness ==
    /\ run.pc = "done"
    /\ NameOf(run.value) = JStr("frobnicate")
    /\ ParameterOf(run.value, "url") = JStr(<<"google">>)
    /\ status = Status("Unknown command: ", JStr("frobnicate"))
    /\ url = GoogleHome

MissingParameterStatuses ==
    {Status("No URL provided", ""), Status("No search query provided", "")}

\* C12: an open_browser call without a url parameter and a search_web call
\* without a query parameter make the executor show a missing-parameter
\* status, navigate nowhere and throw nothing, whatever the parameters field
\* of the delivered value looks like.
C12_MissingParameter ==
    [][(/\ Executes
        /\ \/ /\ NameOf(run'.value) = JStr("open_browser")
              /\ ParameterOf(run'.value, "url") = JUndef
           \/ /\ NameOf(run'.value) = JStr("search_web")
              /\ ParameterOf(run'.value, "query") = JUndef)
       => /\ status' \in MissingParameterStatuses
          /\ NoNavigation
          /\ run'.threw = "none"]_vars

\* percent-decoding: the characters behind the escapes
Unescapes ==
    [h \in {"20", "25", "26", "2B", "3D", "3F", "3A", "2F"} |->
        CASE h = "20" -> " "
          [] h = "25" -> "%"
          [] h = "26" -> "&"
          [] h = "2B" -> "+"
          [] h = "3D" -> "="
          [] h = "3F" -> "?"
          [] h = "3A" -> ":"
          [] OTHER -> "/"]

RECURSIVE PercentDecode(_)
PercentDecode(str) ==
    IF str = <<>>
    THEN [ok |-> TRUE, str |-> <<>>]
    ELSE IF Head(str) # "%"
         THEN LET rest == PercentDecode(Tail(str))
              IN [ok |-> rest.ok, str |-> <<Head(str)>> \o rest.str]
         ELSE IF Len(str) < 2 \/ str[2] \notin DOMAIN Unescapes
              THEN [ok |-> FALSE, str |-> <<>>]
              ELSE LET rest == PercentDecode(SubSeq(str, 3, Len(str)))
                   IN [ok |-> rest.ok, str |-> <<Unescapes[str[2]]>> \o rest.str]

\* the characters : / / read as the piece "://"
RECURSIVE Pieces(_)
Pieces(str) ==
    IF str = <<>>
    THEN <<>>
    ELSE IF Len(str) >= 3 /\ SubSeq(str, 1, 3) = <<":", "/", "/">>
         THEN <<"://">> \o Pieces(SubSeq(str, 4, Len(str)))
         ELSE <<Head(str)>> \o Pieces(Tail(str))

FirstOf(str, piece) ==
    IF Includes(str, <<piece>>)
    THEN CHOOSE k \in Occurrences(str, <<piece>>) :
             \A j \in Occurrences(str, <<piece>>) : k <= j
    ELSE Len(str) + 1

\* the query string of a URL, and the value of its first parameter `key`
QueryString(str) == SubSeq(str, FirstOf(str, "?") + 1, Len(str))

RECURSIVE ParameterValue(_, _)
ParameterValue(query, key) ==
    IF query = <<>>
    THEN [found |-> FALSE, ok |-> FALSE, str |-> <<>>]
    ELSE LET pair == SubSeq(query, 1, FirstOf(query, "&") - 1)
             rest == SubSeq(query, FirstOf(query, "&") + 1, Len(query))
             name == SubSeq(pair, 1, FirstOf(pair, "=") - 1)
             value == PercentDecode(SubSeq(pair, FirstOf(pair, "=") + 1, Len(pair)))
         IN IF name = key
            THEN [found |-> TRUE, ok |-> value.ok, str |-> Pieces(value.str)]
            ELSE ParameterValue(rest, key)

IsSearchCall(v) ==
    /\ NameOf(v) = JStr("search_web")
    /\ ParameterOf(v, "query").t = "str"
    /\ ParameterOf(v, "query").s # <<>>

WellFormed(str) == ~Includes(str, <<LoneSurrogate>>)

SearchesFor(q) ==
    /\ url' = currentUrl'
    /\ StartsWith(url', SubSeq(SearchPrefix, 1, 10))
    /\ ParameterValue(QueryString(url'), <<"q">>) = [found |-> TRUE, ok |-> TRUE, str |-> q]
    /\ run'.threw = "none"

HookDoes(op) == screen = "hook" /\ lastOp'.op = op

\* C17: when isSupported is false, start() fails at once with an error and
\* neither requests permission nor calls the engine's start.
C17_UnsupportedFailsFast ==
    [][(HookDoes("startListening") /\ ~isSupported)
       => /\ voiceError' # "null"
          /\ startPc' = startPc
          /\ ~lastOp'.engineStart
          /\ recognizer' = recognizer]_vars

Denied ==
    /\ voiceError' = "Microphone permission denied"
    /\ ~lastOp'.engineStart
    /\ recognizer' = recognizer
    /\ isListening' = isListening
    /\ startPc' = "idle"

Stops == lastOp'.op \in {"stopListening", "legacyStopListening"}

\* C19: stop() never sets an error; called when the adapter is not listening
\* it leaves the listening state, the transcript and the error as they are;
\* and a second stop() right after a stop() changes nothing.
C19_StopIdempotent ==
    [][Stops
       => /\ voiceError' = voiceError
          /\ ~isListening'
          /\ ~isListening => (isListening' = isListening /\ transcript' = transcript)
          /\ lastOp.op = lastOp'.op
                 => UNCHANGED <<isListening, transcript, voiceError, recognitionRef,
                                effectDue, startPc, recognizer, session>>]_vars

C19_Witness ==
    /\ lastOp = Op("stopListening", "idle", FALSE)
    /\ ~isListening
    /\ transcript = "open google"
    /\ voiceError = "no-speech"

\* C20: an error of the recognition engine sets the hook's error to the
\* engine's error code and the listening state to false.
C20_EngineErrorSurfaces ==
    [][HookDoes("ErrorEvent")
       => /\ voiceError' = lastOp'.arg
          /\ voiceError' # "null"
          /\ ~isListening']_vars

C20_Witness ==
    /\ screen = "hook"
    /\ lastOp = Op("ErrorEvent", "no-speech", FALSE)
    /\ voiceError = "no-speech"
    /\ ~isListening
    /\ recognizer.state = "ending"
    /\ session.interims >= 1

\* a step of processVoiceCommand: each one calls showFeedbackPanel
Displays == run' # run

Settles == run.pc = "awaiting" /\ run'.pc = "done"

\* C21: every status display cancels the pending hide timer and reschedules
\* it, so the panel is only ever hidden by the timer that was scheduled for
\* the status on display.
C21_HideTimerFollowsStatus ==
    [][(showFeedback /\ ~showFeedback') => hideTimer.shown = status]_vars

\* C25: once the feedback panel is visible and no further status is
\* displayed, the panel is eventually hidden.
C25_EventuallyHidden ==
    []<>(~showFeedback) \/ []<><<Displays>>_vars

\* C26: the executor navigates only in the continuation of a resolved
\* interpretation; a rejected one leaves url and currentUrl alone, issues no
\* back, forward or reload and shows an error status; and the processing
\* flag is false once the interpretation has settled either way.
C26_ActOnlyAfterResolved ==
    [][/\ (Displays /\ ~NoNavigation) => Executes
       /\ (Settles /\ run'.kind = "rejected")
              => /\ NoNavigation
                 /\ status' = Status("Error: ", run'.threw)
                 /\ showFeedback'
       /\ Settles => ~isProcessing'
       /\ run'.pc = "awaiting" => isProcessing']_vars

C26_Witness ==
    /\ run.pc = "done"
    /\ run.kind = "rejected"
    /\ status = Status("Error: ", "Backend server is not running")
    /\ showFeedback
    /\ ~isProcessing
    /\ url = GoogleHome
    /\ currentUrl = GoogleHome

\* C28: at most one feedback hide timer is pending at any time.
C28_OneHideTimer == PendingTimers(hideTimer) <= 1

C28_Witness ==
    /\ hideTimer.current = "pending"
    /\ hideTimer.cleared
    /\ hideTimer.others = 0
    /\ showFeedback

\* the engine has signalled the end of its session and has not been started
\* since
SessionOver == recognizer.state = "inactive" /\ ~recognizer.startPending

Signals(op) == op \in {"EndEvent", "ErrorEvent"}

\* C30: once the recognition engine has signalled end or error for a session,
\* the adapter's listening state is false, and it stays false until the next
\* start: the continuation of an earlier start() does not set it again.
C30_NoListeningAfterEnd ==
    /\ []((screen = "hook" /\ SessionOver) => ~isListening)
    /\ [][/\ (screen = "hook" /\ Signals(lastOp'.op)) => ~isListening'
          /\ (screen = "hook" /\ Signals(lastOp.op) /\ lastOp'.op = "StartResolved")
                 => ~isListening']_vars

\* the function call written in the first balanced {...} of a text, if that
\* object parses and names a function
WrittenCall(generated) ==
    LET parsed == JSONParse(FirstBalanced(generated))
    IN IF FirstBalanced(generated) # <<>> /\ parsed.ok
          /\ TypeOf(Prop(parsed.val, "name")) = "string"
       THEN [ok |-> TRUE, val |-> parsed.val]
       ELSE [ok |-> FALSE, val |-> JUndef]

DocumentedForm(v) == TypeOf(Prop(v, "parameters")) = "object" /\ Truthy(Prop(v, "parameters"))

Responded == route.pc = "responded" /\ route.generated.kind = "text"

\* C27: when the model's text holds a well-formed function call
\* {"name": ..., "parameters": {...}}, the route answers with that call; it
\* answers with the search_web fallback only when the text holds no
\* function call that parses.
C27_RouteReturnsTheCall ==
    Responded =>
        LET written == WrittenCall(route.generated.text)
        IN /\ (written.ok /\ DocumentedForm(written.val))
                 => route.response = NextResponse(200, written.val)
           /\ (written.ok /\ written.val # RouteFallback(route.command))
                 => route.response.body # RouteFallback(route.command)

=============================================================================
